---- MODULE Spec2Model ----
(***************************************************************************)
(* Standings derivation of FootballStatsML.                                *)
(*                                                                         *)
(* Two functions derive a league table from a schedule:                    *)
(*   compute_ranking              01_scripts/01a_APIscrapping/01ab_LeagueInit.py *)
(*   compute_table_from_schedule  01_scripts/01a_scrapping_leagues_fbref.py      *)
(* A schedule is a pandas DataFrame: an ordered list of column names and   *)
(* an ordered list of rows, each row giving every column a nullable value. *)
(* A nullable value is <<>> (NaN/None) or <<v>>.  A string is a sequence   *)
(* of one-character strings, so that replace/split/int act on characters.  *)
(***************************************************************************)
EXTENDS Integers, Sequences, FiniteSets, TLC

VARIABLES
    columns, rows,      \* the schedule in hand: its column names, its rows
    pc,                 \* where the program stands
    out,                \* what compute_ranking / compute_table_from_schedule gave
    prog,               \* the script that runs
    only_seasons, only_leagues,   \* the allow-lists ({}: no filter)
    step, pair, stat,   \* the cursors of the three nested loops
    entered,            \* per step: the pairs whose body was entered
    ended,              \* per step: how its main ended
    faults,             \* the kinds of failure met so far in the current step
    plog, saves         \* the current pair: what was logged, what was saved

sched == <<columns, rows, out>>
batch == <<prog, only_seasons, only_leagues, step, pair, stat, entered, ended,
           faults, plog, saves>>
vars == <<columns, rows, pc, out, prog, only_seasons, only_leagues, step, pair,
          stat, entered, ended, faults, plog, saves>>

(***************************************************************************)
(* Bounds of the input schedules.                                          *)
(***************************************************************************)
MaxRows == 2
MaxGoals == 1
AltRows == 1
NSeasons == 1
NLeagues == 2

Teams == {"A", "B", "C"}

\* Python compares team strings by code point: "A" < "B" < "C".
TeamOrder == <<"A", "B", "C">>

Null == <<>>
Some(v) == <<v>>
IsNull(x) == x = <<>>
Val(x) == x[1]

Range(s) == {s[i] : i \in 1..Len(s)}

(***************************************************************************)
(* Characters and strings.                                                 *)
(***************************************************************************)
Hyphen == "-"
EnDash == "en-dash U+2013"
\* The three characters of the literal written in the replace call:
\* U+00E2, U+20AC, U+201C.
Mojibake == <<"a-circumflex U+00E2", "euro U+20AC", "left-quote U+201C">>

DigitChars == <<"0", "1", "2", "3", "4", "5", "6", "7", "8", "9">>

IsDigit(c) == \E i \in 1..Len(DigitChars) : DigitChars[i] = c
DigitVal(c) == (CHOOSE i \in 1..Len(DigitChars) : DigitChars[i] = c) - 1

\* str(n) for a one-digit goal count.
StrOfInt(n) == <<DigitChars[n + 1]>>

RECURSIVE IntOfDigits(_)
IntOfDigits(s) ==
    IF s = <<>> THEN 0
    ELSE 10 * IntOfDigits(SubSeq(s, 1, Len(s) - 1)) + DigitVal(s[Len(s)])

\* int(s) of Python on the strings of the model: the number, or Null where
\* int raises ValueError (an empty string, a character that is no digit).
IntOf(s) ==
    IF s # <<>> /\ \A i \in 1..Len(s) : IsDigit(s[i])
    THEN Some(IntOfDigits(s))
    ELSE Null

\* str.replace(pat, rep): every non-overlapping occurrence, leftmost first.
RECURSIVE Replace(_, _, _)
Replace(s, pat, rep) ==
    IF Len(s) < Len(pat) THEN s
    ELSE IF SubSeq(s, 1, Len(pat)) = pat
         THEN rep \o Replace(SubSeq(s, Len(pat) + 1, Len(s)), pat, rep)
         ELSE <<s[1]>> \o Replace(Tail(s), pat, rep)

\* str.split(sep): the list of parts; a string without sep is one part.
RECURSIVE Split(_, _)
Split(s, sep) ==
    IF \A i \in 1..Len(s) : s[i] # sep THEN <<s>>
    ELSE LET k == CHOOSE i \in 1..Len(s) :
                      s[i] = sep /\ \A j \in 1..(i - 1) : s[j] # sep
         IN  <<SubSeq(s, 1, k - 1)>> \o Split(SubSeq(s, k + 1, Len(s)), sep)

(***************************************************************************)
(* Column names.  str.lower() on the column names of the model.            *)
(***************************************************************************)
LowerPairs ==
    << <<"Home_Team", "home_team">>, <<"Away_Team", "away_team">>,
       <<"Home_Score", "home_score">>, <<"Away_Score", "away_score">>,
       <<"Score", "score">> >>

Lower(name) ==
    IF \E i \in 1..Len(LowerPairs) : LowerPairs[i][1] = name
    THEN LowerPairs[CHOOSE i \in 1..Len(LowerPairs) : LowerPairs[i][1] = name][2]
    ELSE name

\* lower_map = {col.lower(): col for col in schedule.columns}: of two columns
\* with the same lower-case name the later one stays.  The value for a key.
LowerMapGet(cols, key) ==
    LET hits == {i \in 1..Len(cols) : Lower(cols[i]) = key}
    IN  IF hits = {} THEN Null
        ELSE Some(cols[CHOOSE i \in hits : \A j \in hits : j <= i])

RECURSIVE FindFrom(_, _, _)
FindFrom(cols, candidates, k) ==
    IF k > Len(candidates) THEN Null
    ELSE IF ~IsNull(LowerMapGet(cols, Lower(candidates[k])))
         THEN LowerMapGet(cols, Lower(candidates[k]))
         ELSE FindFrom(cols, candidates, k + 1)

\* _find_column: the first candidate present, compared in lower case.
find_column(cols, candidates) == FindFrom(cols, candidates, 1)

required_pairs ==
    << <<"home_goals", "away_goals">>,
       <<"home_score", "away_score">>,
       <<"goals_home", "goals_away">> >>
team_candidates == <<"home_team", "team_home">>
opponent_candidates == <<"away_team", "team_away">>

RECURSIVE GoalColsFrom(_, _)
GoalColsFrom(cols, k) ==
    IF k > Len(required_pairs) THEN Null
    ELSE LET home_col == find_column(cols, <<required_pairs[k][1]>>)
             away_col == find_column(cols, <<required_pairs[k][2]>>)
         IN  IF ~IsNull(home_col) /\ ~IsNull(away_col)
             THEN Some(<<Val(home_col), Val(away_col)>>)
             ELSE GoalColsFrom(cols, k + 1)

\* goal_cols: the first pair of required_pairs with both columns present.
goal_cols(cols) == GoalColsFrom(cols, 1)

StandingsColumns == <<"Pos", "Team", "MP", "W", "D", "L", "GF", "GA", "GD", "Pts">>

(***************************************************************************)
(* The pandas steps shared by the two functions.                           *)
(***************************************************************************)
BoolInt(b) == IF b THEN 1 ELSE 0

\* A classification in which a tie is also a win.
PerspectiveTieAlsoWin(team, gf, ga) ==
    [Team |-> team, GF |-> gf, GA |-> ga,
     W |-> BoolInt(gf >= ga), D |-> BoolInt(gf = ga), L |-> BoolInt(gf < ga),
     MP |-> 1]

\* A frame that leaves the goals conceded out.
PerspectiveNoConceded(team, gf, ga) ==
    [Team |-> team, GF |-> gf, GA |-> 0,
     W |-> BoolInt(gf > ga), D |-> BoolInt(gf = ga), L |-> BoolInt(gf < ga),
     MP |-> 1]

\* One row of the home or away frame: a team's view of one match.
Perspective(team, gf, ga) ==
    [Team |-> team, GF |-> gf, GA |-> ga,
     W |-> BoolInt(gf > ga), D |-> BoolInt(gf = ga), L |-> BoolInt(gf < ga),
     MP |-> 1]

RECURSIVE SumOver(_, _, _)
SumOver(frame, team, field) ==
    IF frame = <<>> THEN 0
    ELSE (IF frame[1].Team = Some(team) THEN frame[1][field] ELSE 0)
         + SumOver(Tail(frame), team, field)

\* The group keys in the order of their first appearance in the frame.
RECURSIVE FirstAppearanceKeys(_)
FirstAppearanceKeys(frame) ==
    IF frame = <<>> THEN <<>>
    ELSE LET before == FirstAppearanceKeys(SubSeq(frame, 1, Len(frame) - 1))
             t == frame[Len(frame)].Team
         IN  IF IsNull(t) \/ Val(t) \in Range(before) THEN before
             ELSE Append(before, Val(t))

\* groupby("Team") with its default sort=True, dropna=True: the distinct
\* non-null teams in ascending string order.
GroupKeys(frame) ==
    SelectSeq(TeamOrder,
              LAMBDA t : \E i \in 1..Len(frame) : frame[i].Team = Some(t))

\* totals.groupby("Team", as_index=False).sum(), then the GD and Pts columns.
GroupBySum(frame) ==
    LET keys == GroupKeys(frame)
    IN  [i \in 1..Len(keys) |->
            LET t  == keys[i]
                w  == SumOver(frame, t, "W")
                d  == SumOver(frame, t, "D")
                gf == SumOver(frame, t, "GF")
                ga == SumOver(frame, t, "GA")
            IN  [Team |-> t,
                 MP |-> SumOver(frame, t, "MP"),
                 W |-> w, D |-> d,
                 L |-> SumOver(frame, t, "L"),
                 GF |-> gf, GA |-> ga,
                 GD |-> gf - ga,
                 Pts |-> w * 3 + d]]

\* A key list without the goal difference: by=["Pts", "GF"].
SortsBeforeNoGD(a, b) ==
    \/ a.Pts > b.Pts
    \/ a.Pts = b.Pts /\ a.GF > b.GF

\* by=["Pts", "GD", "GF"], ascending=[False, False, False]: a goes strictly
\* before b.
SortsBefore(a, b) ==
    \/ a.Pts > b.Pts
    \/ a.Pts = b.Pts /\ a.GD > b.GD
    \/ a.Pts = b.Pts /\ a.GD = b.GD /\ a.GF > b.GF

\* x is put before the first row it sorts strictly before: rows with equal
\* keys keep the order they had.
RECURSIVE InsertStable(_, _)
InsertStable(sorted, x) ==
    IF sorted = <<>> THEN <<x>>
    ELSE IF SortsBefore(x, sorted[1]) THEN <<x>> \o sorted
         ELSE <<sorted[1]>> \o InsertStable(Tail(sorted), x)

\* sort_values on several keys is a stable sort.
RECURSIVE SortValues(_)
SortValues(frame) ==
    IF frame = <<>> THEN <<>>
    ELSE InsertStable(SortValues(SubSeq(frame, 1, Len(frame) - 1)),
                      frame[Len(frame)])

\* Positions that start at the index itself.
InsertPosFromZero(frame) ==
    [i \in 1..Len(frame) |->
        [Pos |-> i - 1, Team |-> frame[i].Team, MP |-> frame[i].MP,
         W |-> frame[i].W, D |-> frame[i].D, L |-> frame[i].L,
         GF |-> frame[i].GF, GA |-> frame[i].GA, GD |-> frame[i].GD,
         Pts |-> frame[i].Pts]]

\* reset_index(drop=True); insert(0, "Pos", index + 1).
InsertPos(frame) ==
    [i \in 1..Len(frame) |->
        [Pos |-> i, Team |-> frame[i].Team, MP |-> frame[i].MP,
         W |-> frame[i].W, D |-> frame[i].D, L |-> frame[i].L,
         GF |-> frame[i].GF, GA |-> frame[i].GA, GD |-> frame[i].GD,
         Pts |-> frame[i].Pts]]

\* concat([home, away]) ... sort_values ... insert Pos.
RankTotals(home, away) == InsertPos(SortValues(GroupBySum(home \o away)))

\* pd.DataFrame(columns=[...]): the table with the ten columns and no row.
EmptyTable == <<>>

\* A check that lets every frame through.
NeverEmpty(frame) == FALSE

\* finished.empty, valid_schedule.empty
FrameEmpty(frame) == frame = <<>>

(***************************************************************************)
(* compute_ranking (01ab_LeagueInit.py).                                   *)
(* The result: kind "table" with the table and what was logged, or kind    *)
(* "exception" with the exception that leaves the function.                *)
(***************************************************************************)
\* A filter that drops a row only when both values are missing and reads a
\* single missing value as 0.
DropnaAllFillZero(rws, a, b) ==
    LET kept == SelectSeq(rws, LAMBDA r : ~IsNull(r[a]) \/ ~IsNull(r[b]))
    IN  [i \in 1..Len(kept) |->
            [c \in DOMAIN kept[i] |->
                IF c \in {a, b} /\ IsNull(kept[i][c]) THEN Some(0) ELSE kept[i][c]]]

\* schedule.dropna(subset=[a, b]): the rows with no missing value in a or b.
Dropna(rws, a, b) ==
    SelectSeq(rws, LAMBDA r : ~IsNull(r[a]) /\ ~IsNull(r[b]))

NoExc == [type |-> "none", msg |-> "", names |-> <<>>]
Exc(type, msg, names) == [type |-> type, msg |-> msg, names |-> names]

\* A returned frame has the ten standings columns in both functions: the
\* empty frame is built with them, the ranked frame is selected or built in
\* that order.
Returned(table, log) ==
    [kind |-> "table", columns |-> StandingsColumns, table |-> table,
     log |-> log, exc |-> NoExc]
Raised(exc) ==
    [kind |-> "exception", columns |-> <<>>, table |-> <<>>, log |-> <<>>,
     exc |-> exc]

\* An error line that does not say which columns were found.
MissingColumnsErrorBare(cols) ==
    <<[level |-> "error", msg |-> "Missing columns for ranking computation",
       found |-> <<>>]>>

\* logger.error("Missing columns for ranking computation. Found columns: "
\*              f"{list(schedule.columns)}")
MissingColumnsError(cols) ==
    <<[level |-> "error", msg |-> "Missing columns for ranking computation",
       found |-> cols]>>

compute_ranking(cols, rws) ==
    LET home_team_col == find_column(cols, team_candidates)
        away_team_col == find_column(cols, opponent_candidates)
        gcols == goal_cols(cols)
    IN  IF IsNull(home_team_col) \/ IsNull(away_team_col) \/ IsNull(gcols)
        THEN Returned(EmptyTable, MissingColumnsError(cols))
        ELSE
        LET hg == Val(gcols)[1]
            ag == Val(gcols)[2]
            finished == Dropna(rws, hg, ag)
            home == [i \in 1..Len(finished) |->
                        Perspective(finished[i][Val(home_team_col)],
                                    Val(finished[i][hg]), Val(finished[i][ag]))]
            away == [i \in 1..Len(finished) |->
                        Perspective(finished[i][Val(away_team_col)],
                                    Val(finished[i][ag]), Val(finished[i][hg]))]
        IN  IF FrameEmpty(finished) THEN Returned(EmptyTable, <<>>)
            ELSE Returned(RankTotals(home, away), <<>>)

(***************************************************************************)
(* compute_table_from_schedule (01a_scrapping_leagues_fbref.py).           *)
(***************************************************************************)
\* sorted(required_cols - set(schedule.columns)): the names are compared as
\* they are written, with no change of case.
missing_cols(cols) ==
    SelectSeq(<<"away_team", "home_team", "score">>,
              LAMBDA c : c \notin Range(cols))

\* .str.replace(<the three-character literal>, "-", regex=False)
NormalizeScore(score) == Replace(score, Mojibake, <<Hyphen>>)

\* scores.str.split("-", expand=True): one list of parts per row; the frame
\* has as many columns as the longest list, shorter rows are padded with None.
SplitScores(valid) ==
    [i \in 1..Len(valid) |-> Split(NormalizeScore(Val(valid[i]["score"])), Hyphen)]

GoalsShape1(goals) ==
    IF goals = <<>> THEN 0
    ELSE CHOOSE n \in {Len(goals[i]) : i \in 1..Len(goals)} :
             \A i \in 1..Len(goals) : Len(goals[i]) <= n

\* goals[k] of one row: the part, or Null for the padding None.
Part(parts, k) == IF k <= Len(parts) THEN Some(parts[k]) ELSE Null

\* goals[k].astype(int): the exception of the first row that does not
\* convert (int(None) is a TypeError, int("x") a ValueError), or "none".
RECURSIVE AstypeInt(_, _)
AstypeInt(goals, k) ==
    IF goals = <<>> THEN "none"
    ELSE IF IsNull(Part(goals[1], k)) THEN "TypeError"
    ELSE IF IsNull(IntOf(Val(Part(goals[1], k)))) THEN "ValueError"
    ELSE AstypeInt(Tail(goals), k)

GoalOf(parts, k) == Val(IntOf(parts[k]))

\* The two checks that a score frame passes or leaves by an exception:
\* the explicit raise on fewer than two columns, then the two astype(int).
\* A frame of three or more columns passes the first check.
ScoreFailure(goals) ==
    IF GoalsShape1(goals) < 2
    THEN Exc("ValueError", "Score column could not be split into home and away goals.", <<>>)
    ELSE IF AstypeInt(goals, 1) # "none"
    THEN Exc(AstypeInt(goals, 1), "astype(int)", <<>>)
    ELSE IF AstypeInt(goals, 2) # "none"
    THEN Exc(AstypeInt(goals, 2), "astype(int)", <<>>)
    ELSE NoExc

compute_table_from_schedule(cols, rws) ==
    IF missing_cols(cols) # <<>>
    THEN Raised(Exc("ValueError", "Schedule is missing required columns",
                    missing_cols(cols)))
    ELSE
    LET valid_schedule == SelectSeq(rws, LAMBDA r : ~IsNull(r["score"]))
        goals == SplitScores(valid_schedule)
        home_stats == [i \in 1..Len(valid_schedule) |->
                          Perspective(valid_schedule[i]["home_team"],
                                      GoalOf(goals[i], 1), GoalOf(goals[i], 2))]
        away_stats == [i \in 1..Len(valid_schedule) |->
                          Perspective(valid_schedule[i]["away_team"],
                                      GoalOf(goals[i], 2), GoalOf(goals[i], 1))]
    IN  IF FrameEmpty(valid_schedule) THEN Returned(EmptyTable, <<>>)
        ELSE IF ScoreFailure(goals).type # "none" THEN Raised(ScoreFailure(goals))
        ELSE Returned(RankTotals(home_stats, away_stats), <<>>)

(***************************************************************************)
(* The input schedules.                                                    *)
(***************************************************************************)
Goals == 0..MaxGoals
NullableGoals == {Null} \cup {Some(g) : g \in Goals}

FormatScore(h, dash, a) == StrOfInt(h) \o dash \o StrOfInt(a)

\* Scores as the provider writes them, with either dash, and strings that
\* are no score.
ScoreStrings ==
    {FormatScore(h, <<Hyphen>>, a) : h \in Goals, a \in Goals}
    \cup {FormatScore(1, <<EnDash>>, 0), FormatScore(1, Mojibake, 0),
          <<"2", "-", "1", "-", "x">>, <<"2">>}
NullableScores == {Null} \cup {Some(sc) : sc \in ScoreStrings}

HomeTeamNames == {"home_team", "team_home"}
AwayTeamNames == {"away_team", "team_away"}
HomeGoalNames == {"home_goals", "home_score", "goals_home"}
AwayGoalNames == {"away_goals", "away_score", "goals_away"}

\* The column lists of the schedules: the two layouts the functions are
\* written for, the same data under other accepted names, and layouts that
\* lack a team or a goal column.
MainSchemas ==
    { <<"date", "home_team", "away_team", "home_goals", "away_goals">>,
      <<"date", "home_team", "score", "away_team">> }
OtherSchemas ==
    { <<"Home_Team", "Away_Team", "Home_Score", "Away_Score">>,
      <<"team_home", "team_away", "goals_home", "goals_away">>,
      <<"Home_Team", "score", "Away_Team">>,
      <<"team_home", "home_team", "away_team", "home_goals", "away_goals">>,
      <<"home_team", "away_team", "home_goals", "away_score">>,
      <<"home_team", "away_team", "date">>,
      <<"date", "score">>,
      <<"date", "home_goals", "away_goals">> }

\* The row that holds the match (h, a, hg, ag, sc) under the columns cols.
RowOf(cols, h, a, hg, ag, sc) ==
    [c \in Range(cols) |->
        IF Lower(c) \in HomeTeamNames THEN Some(h)
        ELSE IF Lower(c) \in AwayTeamNames THEN Some(a)
        ELSE IF Lower(c) \in HomeGoalNames THEN hg
        ELSE IF Lower(c) \in AwayGoalNames THEN ag
        ELSE IF Lower(c) = "score" THEN sc
        ELSE Some("2025-01-01")]

Has(cols, names) == \E c \in Range(cols) : Lower(c) \in names

\* The fixtures of the schedules: <<home, away>>.
Fixtures == {<<"B", "A">>, <<"A", "C">>, <<"C", "B">>}

RowsOf(cols) ==
    {RowOf(cols, m[1], m[2], hg, ag, sc) :
        m \in Fixtures,
        hg \in IF Has(cols, HomeGoalNames) THEN NullableGoals ELSE {Null},
        ag \in IF Has(cols, AwayGoalNames) THEN NullableGoals ELSE {Null},
        sc \in IF Has(cols, {"score"}) THEN NullableScores ELSE {Null}}

SeqsUpTo(S, n) == UNION {[1..k -> S] : k \in 0..n}

\* Neither function has been called.
NoOutput ==
    [kind |-> "none", columns |-> <<>>, table |-> <<>>, log |-> <<>>, exc |-> NoExc]

\* No batch runs while one of the two functions is applied to a schedule.
NoBatch ==
    /\ prog = "none"
    /\ only_seasons = {} /\ only_leagues = {}
    /\ step = 0 /\ pair = 0 /\ stat = 0
    /\ entered = <<>> /\ ended = <<>>
    /\ faults = {} /\ plog = <<>> /\ saves = <<>>

Init ==
    /\ NoBatch
    /\ \/ /\ columns \in MainSchemas
          /\ rows \in SeqsUpTo(RowsOf(columns), MaxRows)
       \/ /\ columns \in OtherSchemas
          /\ rows \in SeqsUpTo(RowsOf(columns), AltRows)
    /\ pc = "schedule"
    /\ out = NoOutput

\* ranking = compute_ranking(schedule, logger=logger)
ComputeRanking ==
    /\ pc = "schedule"
    /\ out' = compute_ranking(columns, rows)
    /\ pc' = "compute_ranking"
    /\ UNCHANGED <<columns, rows, batch>>

\* table = compute_table_from_schedule(schedule)
ComputeTable ==
    /\ pc = "schedule"
    /\ out' = compute_table_from_schedule(columns, rows)
    /\ pc' = "compute_table_from_schedule"
    /\ UNCHANGED <<columns, rows, batch>>

Next == ComputeRanking \/ ComputeTable

Spec == Init /\ [][Next]_vars

(***************************************************************************)
(* The batch runs.                                                         *)
(*   01aa_APIDownloader.py runs the step modules one after the other; each *)
(*   module's main loops over the (season, league) pairs.                  *)
(*   01a_scrapping_leagues_fbref.py loops over the pairs itself.           *)
(* What the provider and the disk do is chosen freely at each call.        *)
(***************************************************************************)
Downloader == "01aa_APIDownloader"
LeaguesFbref == "01a_scrapping_leagues_fbref"

\* The steps of the downloader whose modules are under src/.
steps == <<"LeagueInit", "TeamMatch", "PlayerSeason">>
TEAM_MATCH_STATS ==
    <<"shooting", "passing", "goal_shot_creation", "defense", "possession", "misc">>
PLAYER_SEASON_STATS ==
    <<"standard", "shooting", "passing", "goal_shot_creation", "defense",
      "possession", "playing_time", "misc">>
StatsOf(name) == IF name = "TeamMatch" THEN TEAM_MATCH_STATS ELSE PLAYER_SEASON_STATS

StepsOf(p) == IF p = Downloader THEN steps ELSE <<"LeagueTable">>

\* for season in seasons: for league in leagues: the k-th pair of the run.
PairCount == NSeasons * NLeagues
SeasonOf(k) == ((k - 1) \div NLeagues) + 1
LeagueOf(k) == ((k - 1) % NLeagues) + 1

\* if only_seasons and season_label not in only_seasons: continue  (and the
\* same for leagues); an empty set is no filter.
PassesFilter(k) ==
    /\ only_seasons = {} \/ SeasonOf(k) \in only_seasons
    /\ only_leagues = {} \/ LeagueOf(k) \in only_leagues

\* A call of a provider method: it raises, or returns a frame.
RaisedFrame == [kind |-> "raise", columns |-> <<>>, rows |-> <<>>]
EmptyDataFrame == [kind |-> "data", columns |-> <<>>, rows |-> <<>>]
Frame(cols, rws) == [kind |-> "data", columns |-> cols, rows |-> rws]

\* DataFrame.empty: no column or no row.
IsEmptyFrame(df) == df.columns = <<>> \/ df.rows = <<>>

\* A call that lets the exception through.
SafeCallUncaught(res) == res

\* safe_call: the frame, or an empty frame when the call raised.
safe_call(res) == IF res.kind = "raise" THEN EmptyDataFrame ELSE res

\* save_dataframe: parquet; on failure CSV at path.with_suffix(".csv"); the
\* CSV write is in the except branch, its exception leaves the function.
save_dataframe(parquet_ok, csv_ok) ==
    IF parquet_ok THEN "parquet" ELSE IF csv_ok THEN "csv" ELSE "raise"

\* What one save leaves: the artifact's path (season, league, name), the
\* suffix written ("lost": nothing), and the frame.
Saved(k, name, suffix, cols, rws) ==
    [season |-> SeasonOf(k), league |-> LeagueOf(k), name |-> name,
     suffix |-> IF suffix = "raise" THEN "lost" ELSE suffix,
     columns |-> cols, table |-> rws]

\* The failure a save adds: a write that fell back to CSV lost nothing.
WriteFaults(suffix) == IF suffix = "raise" THEN {"persist"} ELSE {}

LogLine(level, msg) == [level |-> level, msg |-> msg, found |-> <<>>]

\* The schedules the provider returns in a batch run: one match, played or
\* not, under each column layout.
BatchSchedules ==
    {Frame(cols, <<RowOf(cols, "B", "A", g, g, sc)>>) :
        cols \in MainSchemas \cup OtherSchemas,
        g \in {Null, Some(1)},
        sc \in {Null, Some(FormatScore(1, <<Hyphen>>, 1))}}
FetchOutcomes == {RaisedFrame, EmptyDataFrame} \cup BatchSchedules
StatFrame == Frame(<<"team", "value">>, <<[team |-> Some("A"), value |-> Some(1)]>>)
StatOutcomes == {RaisedFrame, EmptyDataFrame, StatFrame}

Pending == [status |-> "pending", cause |-> "none"]

BatchInit ==
    /\ prog \in {Downloader, LeaguesFbref}
    /\ IF prog = Downloader
       THEN /\ only_seasons \in SUBSET (1..NSeasons)
            /\ only_leagues \in SUBSET (1..NLeagues)
            /\ pc = "steps"
       ELSE /\ only_seasons = {} /\ only_leagues = {}
            /\ pc = "pairs"
    /\ step = 1 /\ pair = 0 /\ stat = 0
    /\ entered = [i \in 1..Len(StepsOf(prog)) |-> 0]
    /\ ended = [i \in 1..Len(StepsOf(prog)) |-> Pending]
    /\ faults = {} /\ plog = <<>> /\ saves = <<>>
    /\ columns = <<>> /\ rows = <<>> /\ out = NoOutput

\* The main of the current step ends: by return, or by an exception that
\* run_step catches and logs ("Step failed"); the next step follows.
EndStep(status, cause) ==
    /\ ended' = [ended EXCEPT ![step] = [status |-> status, cause |-> cause]]
    /\ step' = step + 1
    /\ pair' = 0 /\ stat' = 0
    /\ pc' = IF step + 1 > Len(StepsOf(prog)) THEN "done" ELSE "steps"

\* run_step: load the module and call its main, which returns at once when
\* its enable flag is off.
RunStep ==
    /\ prog = Downloader /\ pc = "steps"
    /\ \E load \in {"ok", "raise"}, enabled \in BOOLEAN :
          IF load = "raise" THEN EndStep("failed", "load")
          ELSE IF ~enabled THEN EndStep("disabled", "none")
          ELSE /\ pc' = "pairs"
               /\ UNCHANGED <<step, pair, stat, ended>>
    /\ faults' = {} /\ plog' = <<>> /\ saves' = <<>>
    /\ columns' = <<>> /\ rows' = <<>> /\ out' = NoOutput
    /\ UNCHANGED <<prog, only_seasons, only_leagues, entered>>

\* The head of the pair loop of a step's main: the end of the loop, a pair
\* the filter skips, or a pair whose client is built inside try/except.
EnterPair ==
    /\ prog = Downloader /\ pc = "pairs"
    /\ saves' = <<>>
    /\ columns' = <<>> /\ rows' = <<>> /\ out' = NoOutput
    /\ IF pair = PairCount
       THEN /\ EndStep("returned", "none")
            /\ plog' = <<>>
            /\ UNCHANGED <<entered, faults>>
       ELSE /\ pair' = pair + 1
            /\ stat' = 0
            /\ UNCHANGED <<step, ended>>
            /\ IF ~PassesFilter(pair + 1)
               THEN /\ pc' = "pairs"
                    /\ plog' = <<>>
                    /\ UNCHANGED <<entered, faults>>
               ELSE /\ entered' = [entered EXCEPT ![step] = @ + 1]
                    /\ \E build \in {"ok", "raise"} :
                          IF build = "raise"
                          THEN /\ pc' = "pairs"
                               /\ plog' = <<LogLine("error", "Failed to create FBref client")>>
                               /\ faults' = faults \cup {"client"}
                          ELSE /\ pc' = IF steps[step] = "LeagueInit"
                                        THEN "read_schedule" ELSE "stats"
                               /\ plog' = <<>>
                               /\ UNCHANGED faults
    /\ UNCHANGED <<prog, only_seasons, only_leagues>>

\* What the body of a pair comes to: flow "continue" (the loop goes on) or
\* "raise" (an exception leaves main), with the failure kinds met, the log
\* lines, the saves, the schedule and the ranking.
Outcome(flow, cause, met, log, saved, df, ranking) ==
    [flow |-> flow, cause |-> cause, faults |-> met, log |-> log,
     saves |-> saved, columns |-> df.columns, rows |-> df.rows, out |-> ranking]

FetchLog(fetch) ==
    IF fetch.kind = "raise" THEN <<LogLine("error", "Failed to fetch data")>> ELSE <<>>
FetchFaults(fetch) == IF fetch.kind = "raise" THEN {"fetch"} ELSE {}

\* 01ab_LeagueInit.main, the body of one pair after the client is built.
\* The first save is outside any try; compute_ranking and the second save are
\* inside one.  raises: compute_ranking leaves by an exception of pandas,
\* which it can only do past its two early returns.
LeagueInitBody(k, fetch, p1, c1, raises, p2, c2) ==
    LET schedule == safe_call(fetch)
        s1 == save_dataframe(p1, c1)
        s2 == save_dataframe(p2, c2)
        ranking == compute_ranking(schedule.columns, schedule.rows)
        kept == <<Saved(k, "Schedule", s1, schedule.columns, schedule.rows)>>
        verdict == IF ranking.table = <<>>
                   THEN <<LogLine("warning", "Ranking could not be computed (no finished matches)")>>
                   ELSE <<>>
        unresolved == IF ranking.log # <<>> THEN {"schema"} ELSE {}
    IN  IF schedule.kind = "raise"
        THEN Outcome("raise", "fetch", {"fetch"}, <<>>, <<>>, EmptyDataFrame, NoOutput)
        ELSE IF IsEmptyFrame(schedule)
        THEN Outcome("continue", "none", FetchFaults(fetch),
                     FetchLog(fetch)
                        \o <<LogLine("warning", "Schedule is empty; skipping ranking computation")>>,
                     <<>>, EmptyDataFrame, NoOutput)
        ELSE IF s1 = "raise"
        THEN Outcome("raise", "persist", WriteFaults(s1), <<>>, kept, schedule, NoOutput)
        ELSE IF raises /\ ranking.table # <<>>
        THEN Outcome("continue", "none", WriteFaults(s1) \cup {"compute"},
                     <<LogLine("error", "Ranking computation failed")>>,
                     kept, schedule, NoOutput)
        ELSE Outcome("continue", "none",
                     WriteFaults(s1) \cup WriteFaults(s2) \cup unresolved,
                     ranking.log \o verdict
                        \o (IF s2 = "raise"
                            THEN <<LogLine("error", "Ranking computation failed")>>
                            ELSE <<>>),
                     Append(kept, Saved(k, "Ranking", s2, ranking.columns, ranking.table)),
                     schedule, ranking)

\* 01ac_TeamMatch.main / 01ac_PlayerSeason.main, one statistic of one pair:
\* the save is outside any try.
StatBody(k, name, fetch, p, c) ==
    LET df == safe_call(fetch)
        sv == save_dataframe(p, c)
    IN  IF df.kind = "raise"
        THEN Outcome("raise", "fetch", {"fetch"}, <<>>, <<>>, EmptyDataFrame, NoOutput)
        ELSE IF IsEmptyFrame(df)
        THEN Outcome("continue", "none", FetchFaults(fetch),
                     FetchLog(fetch) \o <<LogLine("warning", "returned no data")>>,
                     <<>>, EmptyDataFrame, NoOutput)
        ELSE Outcome(IF sv = "raise" THEN "raise" ELSE "continue",
                     IF sv = "raise" THEN "persist" ELSE "none",
                     WriteFaults(sv), <<>>,
                     <<Saved(k, name, sv, df.columns, df.rows)>>, df, NoOutput)

Apply(res) ==
    /\ faults' = faults \cup res.faults
    /\ plog' = res.log
    /\ saves' = res.saves
    /\ columns' = res.columns /\ rows' = res.rows /\ out' = res.out

LeagueInitPair ==
    /\ prog = Downloader /\ pc = "read_schedule"
    /\ \E fetch \in FetchOutcomes, p1, c1, raises, p2, c2 \in BOOLEAN :
          \E res \in {LeagueInitBody(pair, fetch, p1, c1, raises, p2, c2)} :
              /\ Apply(res)
              /\ IF res.flow = "raise" THEN EndStep("failed", res.cause)
                 ELSE /\ pc' = "pairs"
                      /\ UNCHANGED <<step, pair, stat, ended>>
    /\ UNCHANGED <<prog, only_seasons, only_leagues, entered>>

StatIteration ==
    /\ prog = Downloader /\ pc = "stats"
    /\ \E fetch \in StatOutcomes, p, c \in BOOLEAN :
          \E res \in {StatBody(pair, StatsOf(steps[step])[stat + 1], fetch, p, c)} :
              /\ Apply(res)
              /\ IF res.flow = "raise" THEN EndStep("failed", res.cause)
                 ELSE /\ stat' = stat + 1
                      /\ pc' = IF stat + 1 = Len(StatsOf(steps[step]))
                               THEN "pairs" ELSE "stats"
                      /\ UNCHANGED <<step, pair, ended>>
    /\ UNCHANGED <<prog, only_seasons, only_leagues, entered>>

\* save_league_table_raw: parquet, else CSV; the CSV write is unguarded.
save_league_table_raw(parquet_ok, csv_ok) ==
    IF parquet_ok THEN "parquet" ELSE IF csv_ok THEN "csv" ELSE "raise"

\* process_league_season: the whole body is inside one try/except Exception,
\* so every outcome lets the loop of main go on.
\* client: "raise", "unsupported" (build_fbref_client returns None) or "ok".
process_league_season(k, client, fetch, p, c) ==
    LET table == compute_table_from_schedule(fetch.columns, fetch.rows)
        sv == save_league_table_raw(p, c)
        caught == <<LogLine("error", "Error processing")>>
    IN  IF client = "raise"
        THEN Outcome("continue", "none", {"client"}, caught, <<>>, EmptyDataFrame, NoOutput)
        ELSE IF client = "unsupported"
        THEN Outcome("continue", "none", {}, <<>>, <<>>, EmptyDataFrame, NoOutput)
        ELSE IF fetch.kind = "raise"
        THEN Outcome("continue", "none", {"fetch"}, caught, <<>>, EmptyDataFrame, NoOutput)
        ELSE IF IsEmptyFrame(fetch)
        THEN Outcome("continue", "none", {}, <<>>, <<>>, EmptyDataFrame, NoOutput)
        ELSE IF table.kind = "exception"
        THEN Outcome("continue", "none",
                     IF table.exc.names # <<>> THEN {"schema"} ELSE {"compute"},
                     caught, <<>>, fetch, table)
        ELSE Outcome("continue", "none", WriteFaults(sv),
                     IF sv = "raise" THEN caught ELSE <<>>,
                     <<Saved(k, "LeagueTable", sv, table.columns, table.table)>>,
                     fetch, table)

\* main of 01a_scrapping_leagues_fbref.py: one pair, or the end of the loop.
LegacyPair ==
    /\ prog = LeaguesFbref /\ pc = "pairs"
    /\ IF pair = PairCount
       THEN /\ EndStep("returned", "none")
            /\ UNCHANGED <<entered, faults, plog, saves, columns, rows, out>>
       ELSE /\ pair' = pair + 1
            /\ entered' = [entered EXCEPT ![step] = @ + 1]
            /\ \E client \in {"raise", "unsupported", "ok"},
                  fetch \in FetchOutcomes, p, c \in BOOLEAN :
                  \E res \in {process_league_season(pair + 1, client, fetch, p, c)} :
                      /\ Apply(res)
                      /\ IF res.flow = "raise" THEN EndStep("failed", res.cause)
                         ELSE UNCHANGED <<pc, step, stat, ended>>
    /\ UNCHANGED <<prog, only_seasons, only_leagues>>

BatchNext == RunStep \/ EnterPair \/ LeagueInitPair \/ StatIteration \/ LegacyPair

BatchSpec == BatchInit /\ [][BatchNext]_vars

(***************************************************************************)
(* Properties of the two functions.                                        *)
(***************************************************************************)
RankingDone == pc = "compute_ranking"
TableDone == pc = "compute_table_from_schedule"
Computed == RankingDone \/ TableDone

\* The schedule has the columns that the function that ran reads.
RankingResolved ==
    /\ ~IsNull(find_column(columns, team_candidates))
    /\ ~IsNull(find_column(columns, opponent_candidates))
    /\ ~IsNull(goal_cols(columns))
TableResolved == {"score", "home_team", "away_team"} \subseteq Range(columns)
SchemaResolved ==
    \/ RankingDone /\ RankingResolved
    \/ TableDone /\ TableResolved

ColumnNamed(names) == CHOOSE c \in Range(columns) : Lower(c) \in names
HomeTeamOf(r) == Val(r[ColumnNamed(HomeTeamNames)])
AwayTeamOf(r) == Val(r[ColumnNamed(AwayTeamNames)])

\* A finished match, for the function that ran: both goals present, or the
\* score present.
IsFinished(r) ==
    IF RankingDone
    THEN /\ ~IsNull(r[ColumnNamed(HomeGoalNames)])
         /\ ~IsNull(r[ColumnNamed(AwayGoalNames)])
    ELSE ~IsNull(r["score"])
FinishedMatches == SelectSeq(rows, IsFinished)
TeamsPlayed ==
    {HomeTeamOf(FinishedMatches[i]) : i \in 1..Len(FinishedMatches)}
    \cup {AwayTeamOf(FinishedMatches[i]) : i \in 1..Len(FinishedMatches)}

TeamIndex(t) == CHOOSE i \in 1..Len(TeamOrder) : TeamOrder[i] = t
Tied(a, b) == a.Pts = b.Pts /\ a.GD = b.GD /\ a.GF = b.GF

\* The teams of a list of matches, match by match (home, away) ...
RowMajor(ms) ==
    [k \in 1..(2 * Len(ms)) |->
        IF k % 2 = 1 THEN HomeTeamOf(ms[(k + 1) \div 2]) ELSE AwayTeamOf(ms[k \div 2])]
\* ... and all home teams before all away teams, as concat lays them out.
ColumnMajor(ms) ==
    [k \in 1..(2 * Len(ms)) |->
        IF k <= Len(ms) THEN HomeTeamOf(ms[k]) ELSE AwayTeamOf(ms[k - Len(ms)])]
FirstIn(ts, t) == CHOOSE i \in 1..Len(ts) : ts[i] = t /\ \A j \in 1..(i - 1) : ts[j] # t
TiesFollow(ts) ==
    \A i \in 1..Len(out.table) : \A j \in (i + 1)..Len(out.table) :
        Tied(out.table[i], out.table[j])
            => FirstIn(ts, out.table[i].Team) < FirstIn(ts, out.table[j].Team)

\* C1 as stated: teams equal on points, goal difference and goals-for appear
\* in the order of their first appearance in the input schedule (counted over
\* all rows, over the finished rows, or over the concatenated home and away
\* frames: the statement is taken to hold if it holds for any of the three).
C1_TiesKeepFirstAppearance ==
    (Computed /\ SchemaResolved /\ out.kind = "table" /\ out.table # <<>>)
        => \/ TiesFollow(RowMajor(rows))
           \/ TiesFollow(RowMajor(FinishedMatches))
           \/ TiesFollow(ColumnMajor(FinishedMatches))

\* C1 amended: teams equal on points, goal difference and goals-for appear
\* in ascending order of the team string, the order groupby leaves them in.
C1_TiesInTeamNameOrder ==
    (Computed /\ out.kind = "table")
        => \A i \in 1..Len(out.table) : \A j \in (i + 1)..Len(out.table) :
               Tied(out.table[i], out.table[j])
                   => TeamIndex(out.table[i].Team) < TeamIndex(out.table[j].Team)

\* Two tied teams, the one that the schedule names first standing second.
C1_Witness ==
    /\ Computed /\ SchemaResolved /\ out.kind = "table"
    /\ \E i \in 1..(Len(out.table) - 1) :
          /\ Tied(out.table[i], out.table[i + 1])
          /\ FirstIn(RowMajor(rows), out.table[i + 1].Team)
                < FirstIn(RowMajor(rows), out.table[i].Team)

LexGE(a, b) ==
    \/ a.Pts > b.Pts
    \/ a.Pts = b.Pts /\ a.GD > b.GD
    \/ a.Pts = b.Pts /\ a.GD = b.GD /\ a.GF >= b.GF

\* C2: in every table, Pts = 3*W + D and GD = GF - GA in each row, and each
\* row's (Pts, GD, GF) is lexicographically >= that of the row after it.
C2_SortedByPtsGdGf ==
    (Computed /\ out.kind = "table")
        => /\ \A i \in 1..Len(out.table) :
                 /\ out.table[i].Pts = 3 * out.table[i].W + out.table[i].D
                 /\ out.table[i].GD = out.table[i].GF - out.table[i].GA
           /\ \A i \in 1..(Len(out.table) - 1) :
                 LexGE(out.table[i], out.table[i + 1])

\* Three teams, two of them level on points and goal difference and put in
\* order by goals-for against the order of their names.
C2_Witness ==
    /\ RankingDone /\ out.kind = "table" /\ Len(out.table) = Cardinality(Teams)
    /\ \E i \in 1..(Len(out.table) - 1) :
          /\ out.table[i].Pts = out.table[i + 1].Pts
          /\ out.table[i].GD = out.table[i + 1].GD
          /\ out.table[i].GF > out.table[i + 1].GF
          /\ TeamIndex(out.table[i].Team) > TeamIndex(out.table[i + 1].Team)

\* A replace call written with the en dash itself.
NormalizeEnDash(score) == Replace(score, <<EnDash>>, <<Hyphen>>)

\* The dash forms of a score brought to the ASCII hyphen.
DashNormal(score) == NormalizeEnDash(NormalizeScore(score))
WithAsciiDash(rws) ==
    [i \in 1..Len(rws) |->
        [c \in DOMAIN rws[i] |->
            IF c = "score" /\ ~IsNull(rws[i][c])
            THEN Some(NormalizeEnDash(Val(rws[i][c])))
            ELSE rws[i][c]]]

\* C3 as stated: a schedule whose scores are written with the en dash gives
\* the result of the same schedule written with the ASCII hyphen.
C3_EnDashParsesLikeHyphen ==
    (TableDone /\ TableResolved)
        => out = compute_table_from_schedule(columns, WithAsciiDash(rows))

\* Exactly two dash-separated integers.
WellFormedScore(score) ==
    LET parts == Split(DashNormal(score), Hyphen)
    IN  Len(parts) = 2 /\ ~IsNull(IntOf(parts[1])) /\ ~IsNull(IntOf(parts[2]))

\* C4 as stated: a score that is not exactly two dash-separated integers, in
\* any row, ends the computation with a failure and not with a table.
C4_MalformedScoreFails ==
    (TableDone /\ TableResolved
       /\ \E i \in 1..Len(rows) :
             ~IsNull(rows[i]["score"]) /\ ~WellFormedScore(Val(rows[i]["score"])))
        => out.kind = "exception"

AsciiScore(score) ==
    LET parts == Split(score, Hyphen)
    IN  Len(parts) = 2 /\ ~IsNull(IntOf(parts[1])) /\ ~IsNull(IntOf(parts[2]))

\* C5 as stated: a schedule with the team columns, no structured goal pair
\* and a "score" column yields a non-empty table when it has finished
\* matches (here: every score present is "<int>-<int>" with the ASCII hyphen).
C5_ScoreOnlyScheduleRanks ==
    (Computed
       /\ {"home_team", "away_team", "score"} \subseteq Range(columns)
       /\ IsNull(goal_cols(columns))
       /\ (\A i \in 1..Len(rows) :
              IsNull(rows[i]["score"]) \/ AsciiScore(Val(rows[i]["score"])))
       /\ (\E k \in 1..Len(rows) : ~IsNull(rows[k]["score"])))
        => out.kind = "table" /\ out.table # <<>>

\* C9: the Pos values of a table are 1..N in row order, and its teams are
\* exactly the N distinct teams of the finished matches.
C9_PositionsContiguous ==
    (Computed /\ SchemaResolved /\ out.kind = "table")
        => /\ Len(out.table) = Cardinality(TeamsPlayed)
           /\ \A i \in 1..Len(out.table) : out.table[i].Pos = i
           /\ {out.table[i].Team : i \in 1..Len(out.table)} = TeamsPlayed

\* A table of all three teams next to an unfinished match.
C9_Witness ==
    /\ RankingDone /\ SchemaResolved /\ out.kind = "table"
    /\ Len(out.table) = Cardinality(Teams)
    /\ out.table[Len(out.table)].Pos = Cardinality(Teams)

\* C10: a schedule with no finished match (no row at all, or the columns
\* present and every row without goals or without score) gives the empty
\* table and no exception.
C10_NoFinishedGivesEmptyTable ==
    (\/ RankingDone /\ rows = <<>>
     \/ Computed /\ SchemaResolved /\ FinishedMatches = <<>>)
        => out.kind = "table" /\ out.table = <<>> /\ out.exc.type = "none"

\* Rows are there, none of them finished.
C10_Witness ==
    /\ TableDone /\ TableResolved
    /\ Len(rows) = MaxRows /\ FinishedMatches = <<>>
    /\ out.kind = "table" /\ out.table = <<>>

(***************************************************************************)
(* Properties of the aggregation.                                          *)
(***************************************************************************)
\* How many of the matches ms a team takes part in, at home and away.
MatchesOf(ms, t) ==
    LET home_col == ColumnNamed(HomeTeamNames)
        away_col == ColumnNamed(AwayTeamNames)
    IN  Cardinality({i \in 1..Len(ms) : ms[i][home_col] = Some(t)})
        + Cardinality({i \in 1..Len(ms) : ms[i][away_col] = Some(t)})

\* C11: in every row of a standings table MP = W + D + L, and MP is the
\* number of finished matches of the team: each finished match adds exactly
\* one of win, draw or loss to each of its two teams.
C11_PlayedIsWinsDrawsLosses ==
    (Computed /\ SchemaResolved /\ out.kind = "table")
        => LET finished == FinishedMatches
           IN  \A i \in 1..Len(out.table) :
                  /\ out.table[i].MP = out.table[i].W + out.table[i].D + out.table[i].L
                  /\ out.table[i].MP = MatchesOf(finished, out.table[i].Team)
                  /\ out.table[i].W >= 0 /\ out.table[i].D >= 0 /\ out.table[i].L >= 0

\* A team with a win and a draw in its two matches.
C11_Witness ==
    /\ Computed /\ SchemaResolved /\ out.kind = "table"
    /\ \E i \in 1..Len(out.table) :
          out.table[i].MP = 2 /\ out.table[i].W = 1 /\ out.table[i].D = 1

RECURSIVE SumField(_, _)
SumField(table, field) ==
    IF table = <<>> THEN 0 ELSE table[1][field] + SumField(Tail(table), field)

\* The score strings the provider writes for h goals to a.
ScoresFor(h, a) ==
    {FormatScore(h, dash, a) : dash \in {<<Hyphen>>, <<EnDash>>, Mojibake}}
WrittenScore(score) == \E h \in Goals, a \in Goals : score \in ScoresFor(h, a)

\* The goals of one finished match, read from the schedule: the two goal
\* columns, or the two numbers the score was written from.
GoalsOfMatch(r) ==
    IF RankingDone
    THEN Val(r[Val(goal_cols(columns))[1]]) + Val(r[Val(goal_cols(columns))[2]])
    ELSE LET g == CHOOSE hga \in Goals \X Goals :
                      Val(r["score"]) \in ScoresFor(hga[1], hga[2])
         IN  g[1] + g[2]

RECURSIVE GoalsIn(_)
GoalsIn(ms) == IF ms = <<>> THEN 0 ELSE GoalsOfMatch(ms[1]) + GoalsIn(Tail(ms))

\* Every finished match carries a score the provider writes.
ScoresWritten ==
    RankingDone
    \/ \A i \in 1..Len(FinishedMatches) :
          WrittenScore(Val(FinishedMatches[i]["score"]))

\* C12: the GF of a standings table sum to the same number as its GA, and
\* that number is the total of the goals of the finished matches.
C12_GoalsConserved ==
    (Computed /\ SchemaResolved /\ out.kind = "table")
        => /\ SumField(out.table, "GF") = SumField(out.table, "GA")
           /\ ScoresWritten => SumField(out.table, "GF") = GoalsIn(FinishedMatches)

\* Two finished matches with goals on both sides, one of them not level.
C12_Witness ==
    /\ Computed /\ SchemaResolved /\ out.kind = "table" /\ ScoresWritten
    /\ Len(FinishedMatches) = 2
    /\ GoalsIn(FinishedMatches) >= 2
    /\ \E i \in 1..Len(out.table) : out.table[i].GF # out.table[i].GA

(***************************************************************************)
(* Properties of the column resolution.                                    *)
(***************************************************************************)
\* The schedule in hand with its team columns renamed to home_team and
\* away_team; SingleTeamColumns: there is one column of each to rename.
CanonName(c) ==
    IF Lower(c) \in HomeTeamNames THEN "home_team"
    ELSE IF Lower(c) \in AwayTeamNames THEN "away_team"
    ELSE c
SingleTeamColumns ==
    /\ Cardinality({i \in 1..Len(columns) : Lower(columns[i]) \in HomeTeamNames}) = 1
    /\ Cardinality({i \in 1..Len(columns) : Lower(columns[i]) \in AwayTeamNames}) = 1
CanonColumns == [i \in 1..Len(columns) |-> CanonName(columns[i])]
CanonRows ==
    [i \in 1..Len(rows) |->
        [n \in Range(CanonColumns) |->
            rows[i][CHOOSE c \in Range(columns) : CanonName(c) = n]]]
SameResult(a, b) == a.kind = b.kind /\ a.table = b.table

\* The candidate column of highest priority that the schedule has.
FirstPresent(candidates) ==
    IF \E c \in Range(columns) : Lower(c) = candidates[1]
    THEN Some(candidates[1])
    ELSE IF \E c \in Range(columns) : Lower(c) = candidates[2]
    THEN Some(candidates[2])
    ELSE Null

\* C13 as stated: with either function, a schedule whose team columns are
\* written in another letter case or with the second synonym gives the
\* result of the same schedule with the columns home_team and away_team.
C13_TeamSynonymsResolve ==
    (Computed /\ SingleTeamColumns)
        => SameResult(out,
                      IF RankingDone
                      THEN compute_ranking(CanonColumns, CanonRows)
                      ELSE compute_table_from_schedule(CanonColumns, CanonRows))

\* The part of C13 that compute_ranking keeps: the team columns it reads are
\* those of the first candidate present, whatever their letter case, and the
\* result is that of the schedule with home_team and away_team.
RankingResolvesSynonyms ==
    RankingDone
        => /\ \A cand \in {team_candidates, opponent_candidates} :
                 IF IsNull(FirstPresent(cand))
                 THEN IsNull(find_column(columns, cand))
                 ELSE /\ ~IsNull(find_column(columns, cand))
                      /\ Lower(Val(find_column(columns, cand))) = Val(FirstPresent(cand))
           /\ SingleTeamColumns
                 => SameResult(out, compute_ranking(CanonColumns, CanonRows))

(***************************************************************************)
(* Properties of the finished-match filter of compute_ranking.             *)
(***************************************************************************)
\* Exactly one of the two goal fields hg, ag of the record is missing.
AsymmetricNull(r, hg, ag) == IsNull(r[hg]) # IsNull(r[ag])
BothPresent(r, hg, ag) == ~IsNull(r[hg]) /\ ~IsNull(r[ag])

\* The teams of the matches ms.
TeamsIn(ms) ==
    LET home_col == ColumnNamed(HomeTeamNames)
        away_col == ColumnNamed(AwayTeamNames)
    IN  {Val(ms[i][home_col]) : i \in 1..Len(ms)}
        \cup {Val(ms[i][away_col]) : i \in 1..Len(ms)}

\* C14: a record with exactly one goal field missing is unplayed for
\* compute_ranking: the table is the one of the schedule without such
\* records, and its teams are those of the records with both goals, so a
\* team that is only in such records has no row.
C14_AsymmetricNullIsUnplayed ==
    (RankingDone /\ RankingResolved)
        => LET hg == Val(goal_cols(columns))[1]
               ag == Val(goal_cols(columns))[2]
           IN  /\ out = compute_ranking(
                            columns,
                            SelectSeq(rows, LAMBDA r : ~AsymmetricNull(r, hg, ag)))
               /\ {out.table[i].Team : i \in 1..Len(out.table)}
                     = TeamsIn(SelectSeq(rows, LAMBDA r : BothPresent(r, hg, ag)))

\* A played match next to a record with one goal field missing whose away
\* team plays nowhere else: the table has the two teams of the played match.
C14_Witness ==
    /\ RankingDone /\ RankingResolved
    /\ Len(rows) = 2
    /\ BothPresent(rows[1], Val(goal_cols(columns))[1], Val(goal_cols(columns))[2])
    /\ AsymmetricNull(rows[2], Val(goal_cols(columns))[1], Val(goal_cols(columns))[2])
    /\ AwayTeamOf(rows[2]) \notin {HomeTeamOf(rows[1]), AwayTeamOf(rows[1])}
    /\ Len(out.table) = 2

(***************************************************************************)
(* Properties of the batch runs.                                           *)
(***************************************************************************)
AllowedPairs == {k \in 1..PairCount : PassesFilter(k)}
PairErrors == {"client", "fetch", "schema", "compute"}

\* C6: an error while building the client, fetching, resolving columns or
\* computing standings never ends a step's pair loop: a main is left by an
\* exception only when a module does not load or a write fails for good, at
\* every moment every allowed pair up to the cursor has been entered, and a
\* main that returns has entered every allowed pair.
C6_PairErrorsDoNotEndLoop ==
    prog # "none" =>
        /\ \A s \in DOMAIN ended :
              /\ ended[s].status = "failed" => ended[s].cause \in {"load", "persist"}
              /\ ended[s].status = "returned" => entered[s] = Cardinality(AllowedPairs)
        /\ pc \in {"pairs", "read_schedule", "stats"}
              => entered[step] = Cardinality({k \in AllowedPairs : k <= pair})

\* The LeagueInit loop has returned after entering every pair, two kinds of
\* pair error on the way and no lost write.
C6_Witness ==
    /\ prog = Downloader /\ step > 1 /\ pc = "steps"
    /\ steps[step - 1] = "LeagueInit"
    /\ ended[step - 1].status = "returned"
    /\ entered[step - 1] = PairCount
    /\ Cardinality(faults \cap PairErrors) >= 2
    /\ "persist" \notin faults

\* C7 as stated: a fallback write that fails too costs only that artifact;
\* no main is left because of it, so the artifacts, pairs and steps after it
\* are still processed.
C7_FallbackFailureLosesOneArtifact ==
    prog # "none" =>
        \A s \in DOMAIN ended :
            ended[s].status = "failed" => ended[s].cause # "persist"

\* The function of the running script was called on the schedule in hand
\* and did not resolve its columns.
ResolverFailed ==
    /\ prog # "none" /\ out.kind # "none"
    /\ IF prog = Downloader THEN ~RankingResolved ELSE ~TableResolved

PlaceholderEmitted(name) ==
    /\ out.kind = "table" /\ out.table = <<>> /\ out.columns = StandingsColumns
    /\ \E i \in 1..Len(plog) : plog[i].level = "error" /\ plog[i].found = columns
    /\ \E j \in 1..Len(saves) :
          /\ saves[j].name = name
          /\ saves[j].season = SeasonOf(pair) /\ saves[j].league = LeagueOf(pair)
          /\ saves[j].columns = StandingsColumns /\ saves[j].table = <<>>

\* C8 as stated: when the team or goal columns cannot be resolved, an error
\* carrying the column names present is reported and the empty placeholder
\* table is emitted as the pair's standings artifact, with no exception.
C8_UnresolvedGivesPlaceholder ==
    ResolverFailed
        => PlaceholderEmitted(IF prog = Downloader THEN "Ranking" ELSE "LeagueTable")

\* C8 amended: compute_ranking (01ab_LeagueInit) logs the error with the
\* column names present and returns the empty placeholder, which main hands
\* to save_dataframe as the pair's Ranking artifact;
\* compute_table_from_schedule raises a ValueError that names the missing
\* columns, process_league_season logs it and saves nothing.
C8_PlaceholderInLeagueInitOnly ==
    ResolverFailed
        => IF prog = Downloader
           THEN PlaceholderEmitted("Ranking")
           ELSE /\ out.kind = "exception" /\ out.exc.type = "ValueError"
                /\ out.exc.names # <<>>
                /\ Range(out.exc.names)
                      = {"score", "home_team", "away_team"} \ Range(columns)
                /\ saves = <<>>
                /\ \E i \in 1..Len(plog) : plog[i].level = "error"

\* The provider's own layout (a score column, no goal columns) in LeagueInit:
\* the placeholder is written as Ranking.parquet.
C8_Witness ==
    /\ prog = Downloader /\ ResolverFailed
    /\ "score" \in Range(columns)
    /\ \E j \in 1..Len(saves) :
          saves[j].name = "Ranking" /\ saves[j].suffix = "parquet"
             /\ saves[j].table = <<>>

====
